---- MODULE Spec2Model ----
(***************************************************************************)
(* A model of the Last.fm -> ATProto importer: the sync pipeline           *)
(* (fetchExistingRecords, filterNewRecords), the applyWrites publisher     *)
(* (publishRecordsWithApplyWrites, processDayBatchWithApplyWrites) and the *)
(* duplicate sweep (fetchAllRecords, findDuplicates, removeDuplicates),    *)
(* and the batch-size planning (calculateOptimalBatchSize).                *)
(*                                                                         *)
(* Strings are sequences of one-character strings, so that toLowerCase,    *)
(* trim and the template-literal concatenation of createRecordKey are      *)
(* computed and not assumed.  The process is single-threaded JavaScript:   *)
(* one action runs the code from one await to the next.                    *)
(***************************************************************************)
EXTENDS Integers, Sequences, FiniteSets, TLC

(***************************************************************************)
(* Bounds of the model.                                                    *)
(***************************************************************************)
\* longest Last.fm export of the sync runs
SrcLen == 3
\* longest record list handed straight to the publisher
BigLen == 12
\* records the server returns per listRecords page (at most the limit asked)
ServerPage == 2
\* largest batch size a caller passes or the rate-limit plan produces
BatchMax == 12
\* daily write cap of the small configuration
SmallCap == 2
\* how far the server may over-report results beyond the chunk
OverReport == 1
\* longest record list of the runs that publish in small chunks
ChunkLen == 5
\* largest batch size of the runs on short record lists
SmallBatch == 2
\* longest record list filterNewRecords is called with on its own
FilterLen == 3
\* most records in the collection a sweep starts on
SweepLen == 4
\* the record totals a batch size is planned for: multiples of TotalStep
TotalStep == 25
TotalSteps == 40
\* most new records and largest daily cap a rate-limit plan is computed for
PlanTotal == 25
PlanCap == 10
\* milliseconds after each instant an identifier is generated for
TidSpan == 2

(***************************************************************************)
(* Program constants.                                                      *)
(***************************************************************************)
MAX_APPLY_WRITES_OPS == 10
ListLimit == 100

Min(a, b) == IF a < b THEN a ELSE b
CeilDiv(a, b) == (a + b - 1) \div b

(***************************************************************************)
(* Strings.                                                                *)
(***************************************************************************)
\* String.prototype.toLowerCase on the model's alphabet
LowerChar(c) ==
    CASE c = "Q" -> "q"
      [] c = "B" -> "b"
      [] c = "R" -> "r"
      [] c = "T" -> "t"
      [] c = "Z" -> "z"
      [] OTHER -> c

toLowerCase(s) == [k \in 1..Len(s) |-> LowerChar(s[k])]

IsSpace(c) == c \in {" ", "\t"}

RECURSIVE TrimStart(_)
TrimStart(s) ==
    IF s # <<>> /\ IsSpace(Head(s)) THEN TrimStart(Tail(s)) ELSE s

RECURSIVE TrimEnd(_)
TrimEnd(s) ==
    IF s # <<>> /\ IsSpace(s[Len(s)]) THEN TrimEnd(SubSeq(s, 1, Len(s) - 1)) ELSE s

\* String.prototype.trim
trim(s) == TrimEnd(TrimStart(s))

Delimiter == <<"|", "|", "|">>

\* createRecordKey that lower-cases but keeps the surrounding whitespace
createRecordKeyNoTrim(record) ==
    LET artist == IF Len(record.artists) > 0 THEN record.artists[1].artistName ELSE <<>>
    IN  toLowerCase(artist) \o Delimiter \o toLowerCase(record.trackName)
          \o Delimiter \o record.playedTime

\* createRecordKey: `${normalizedArtist}|||${normalizedTrack}|||${timestamp}`
createRecordKey(record) ==
    LET artist == IF Len(record.artists) > 0 THEN record.artists[1].artistName ELSE <<>>
        track == record.trackName
        timestamp == record.playedTime
        normalizedArtist == trim(toLowerCase(artist))
        normalizedTrack == trim(toLowerCase(track))
    IN  normalizedArtist \o Delimiter \o normalizedTrack \o Delimiter \o timestamp

(***************************************************************************)
(* Play records of the exports the model runs on.                          *)
(***************************************************************************)
DigitChar(d) == <<"0", "1", "2", "3", "4", "5", "6", "7", "8", "9">>[d + 1]

\* decimal digits of n >= 0
RECURSIVE Digits(_)
Digits(n) == IF n < 10 THEN <<DigitChar(n)>> ELSE Digits(n \div 10) \o <<DigitChar(n % 10)>>

PlayRecord(artist, track, n) ==
    [artists |-> <<[artistName |-> artist]>>, trackName |-> track,
     playedTime |-> Digits(n)]

\* an export of n plays with pairwise different keys
DistinctExport(n) == [k \in 1..n |-> PlayRecord(<<"Q">>, <<"B">>, k)]

\* an export whose plays 1 and 2 are one scrobble spelled twice (same key)
RepeatExport(n) ==
    [k \in 1..n |->
        IF k = 2 THEN PlayRecord(<<" ", "q">>, <<"b", " ">>, 1)
        ELSE PlayRecord(<<"Q">>, <<"B">>, k)]

Keys(recs) == {createRecordKey(recs[k]) : k \in 1..Len(recs)}


(***************************************************************************)
(* The environment and the locale-aware date formatting (utils/helpers).   *)
(***************************************************************************)
\* the environments a run is started in: LANG unset, LANG=C, and
\* LANG=en_US.UTF-8, the LANG of a usual Linux or macOS shell.  A variable
\* that is not set is the empty string, which is as falsy.
Environments ==
    {[LANG |-> <<>>, LC_ALL |-> <<>>],
     [LANG |-> <<"C">>, LC_ALL |-> <<>>],
     [LANG |-> <<"e", "n", "_", "U", "S", ".", "U", "T", "F", "-", "8">>, LC_ALL |-> <<>>]}

\* s.split('.')[0]: the characters before the first dot
RECURSIVE SplitDotFirst(_)
SplitDotFirst(s) ==
    IF s = <<>> \/ Head(s) = "." THEN <<>> ELSE <<Head(s)>> \o SplitDotFirst(Tail(s))

\* getUserLocale: LANG (or LC_ALL) up to the first dot unless it is empty, "C"
\* or "POSIX"; else Intl.DateTimeFormat().resolvedOptions().locale, a language
\* tag Intl accepts
getUserLocale(e) ==
    LET envLang == IF SplitDotFirst(e.LANG) # <<>> THEN SplitDotFirst(e.LANG)
                   ELSE SplitDotFirst(e.LC_ALL)
    IN  IF envLang # <<>> /\ envLang # <<"C">> /\ envLang # <<"P", "O", "S", "I", "X">>
        THEN envLang
        ELSE <<"e", "n", "-", "U", "S">>

\* whether Intl takes the tag: subtags are joined by "-", never by "_"
IsLanguageTag(tag) == tag # <<>> /\ \A k \in 1..Len(tag) : tag[k] # "_"

\* whether new Date(playedTime) is a valid date; the timestamps of the model
\* ("1", "2", ..., "2024-01-01T00:00:00Z") all are, the empty string is not
DateParses(playedTime) == playedTime # <<>>

\* formatDate(date, true): toLocaleString(locale, ...) of an invalid date is
\* "Invalid Date" whatever the locale; of a valid date it is a formatted
\* string, or a RangeError when the locale is not a language tag
formatDate(date, e) ==
    IF ~DateParses(date) THEN "Invalid Date"
    ELSE IF IsLanguageTag(getUserLocale(e)) THEN "formatted"
    ELSE "RangeError"

\* the examples shown of a list: formatDate for each of its first five dates
ExamplesThrow(dates, e) ==
    \E k \in 1..Min(5, Len(dates)) : formatDate(dates[k], e) = "RangeError"

\* what a call that may throw yields
Return(v) == [threw |-> FALSE, value |-> v]
Throw == [threw |-> TRUE, value |-> <<>>]

(***************************************************************************)
(* The sync filter and the duplicate grouping.                             *)
(***************************************************************************)
EmptyMap == [k \in {} |-> {}]

\* Map.prototype.set
MapSet(m, k, v) == [x \in (DOMAIN m) \cup {k} |-> IF x = k THEN v ELSE m[x]]

\* the newRecords of filterNewRecords' loop: the records whose key the index
\* does not hold, in order
RECURSIVE NewRecords(_, _)
NewRecords(lastfmRecords, existing) ==
    IF lastfmRecords = <<>> THEN <<>>
    ELSE IF createRecordKey(Head(lastfmRecords)) \in DOMAIN existing
         THEN NewRecords(Tail(lastfmRecords), existing)
         ELSE <<Head(lastfmRecords)>> \o NewRecords(Tail(lastfmRecords), existing)

\* the duplicates of filterNewRecords' loop: the records whose key the index holds
RECURSIVE filterDuplicates(_, _)
filterDuplicates(lastfmRecords, existing) ==
    IF lastfmRecords = <<>> THEN <<>>
    ELSE IF createRecordKey(Head(lastfmRecords)) \in DOMAIN existing
         THEN <<Head(lastfmRecords)>> \o filterDuplicates(Tail(lastfmRecords), existing)
         ELSE filterDuplicates(Tail(lastfmRecords), existing)

\* filterNewRecords that lets every record through
filterNewRecordsKeepAll(lastfmRecords, existing, e) == Return(lastfmRecords)

\* filterNewRecords: the loop, then the examples of the duplicates (their
\* playedTime formatted), then return newRecords
filterNewRecords(lastfmRecords, existing, e) ==
    LET newRecords == NewRecords(lastfmRecords, existing)
        duplicates == filterDuplicates(lastfmRecords, existing)
    IN  IF ExamplesThrow([k \in 1..Len(duplicates) |-> duplicates[k].playedTime], e)
        THEN Throw
        ELSE Return(newRecords)

\* an index that keeps the first record of a key and drops the later ones
RECURSIVE IndexPageKeepFirst(_, _)
IndexPageKeepFirst(existing, page) ==
    IF page = <<>> THEN existing
    ELSE IF createRecordKey(Head(page).value) \in DOMAIN existing
         THEN IndexPageKeepFirst(existing, Tail(page))
         ELSE IndexPageKeepFirst(MapSet(existing, createRecordKey(Head(page).value),
                                        Head(page)), Tail(page))

\* one listRecords page folded into the index (fetchExistingRecords)
RECURSIVE IndexPage(_, _)
IndexPage(existing, page) ==
    IF page = <<>> THEN existing
    ELSE IndexPage(MapSet(existing, createRecordKey(Head(page).value), Head(page)),
                   Tail(page))

\* one listRecords page appended to the full list (fetchAllRecords)
AppendPage(all, page) == all \o page

\* the keys of the full list in order of first occurrence (Map insertion order)
RECURSIVE KeyOrder(_, _)
KeyOrder(all, seen) ==
    IF all = <<>> THEN <<>>
    ELSE LET key == createRecordKey(Head(all).value)
         IN  IF key \in seen THEN KeyOrder(Tail(all), seen)
             ELSE <<key>> \o KeyOrder(Tail(all), seen \cup {key})

\* keyGroups.get(key): the records of the list with this key, in list order
RECURSIVE KeyGroup(_, _)
KeyGroup(all, key) ==
    IF all = <<>> THEN <<>>
    ELSE IF createRecordKey(Head(all).value) = key
         THEN <<Head(all)>> \o KeyGroup(Tail(all), key)
         ELSE KeyGroup(Tail(all), key)

\* a grouping that also returns the keys that occur once
RECURSIVE DuplicateGroupsWithSingles(_, _)
DuplicateGroupsWithSingles(allRecords, order) ==
    IF order = <<>> THEN <<>>
    ELSE <<[key |-> Head(order), records |-> KeyGroup(allRecords, Head(order))]>>
           \o DuplicateGroupsWithSingles(allRecords, Tail(order))

\* for (const [key, records] of keyGroups) if (records.length > 1) duplicates.push
RECURSIVE DuplicateGroups(_, _)
DuplicateGroups(allRecords, order) ==
    IF order = <<>> THEN <<>>
    ELSE LET recs == KeyGroup(allRecords, Head(order))
         IN  IF Len(recs) > 1
             THEN <<[key |-> Head(order), records |-> recs]>>
                    \o DuplicateGroups(allRecords, Tail(order))
             ELSE DuplicateGroups(allRecords, Tail(order))

\* findDuplicates: the groups of two or more records sharing a key
findDuplicates(allRecords) == DuplicateGroups(allRecords, KeyOrder(allRecords, {}))

\* a sweep that deletes the second member of each group only
RECURSIVE ToDeleteSecond(_)
ToDeleteSecond(groups) ==
    IF groups = <<>> THEN <<>>
    ELSE <<Head(groups).records[2]>> \o ToDeleteSecond(Tail(groups))

\* the records removeDuplicates deletes: every group member but the first
RECURSIVE ToDelete(_)
ToDelete(groups) ==
    IF groups = <<>> THEN <<>>
    ELSE Tail(Head(groups).records) \o ToDelete(Tail(groups))

\* totalDuplicates: sum over the groups of (size - 1)
RECURSIVE TotalDuplicates(_)
TotalDuplicates(groups) ==
    IF groups = <<>> THEN 0
    ELSE (Len(Head(groups).records) - 1) + TotalDuplicates(Tail(groups))

(***************************************************************************)
(* The rate-limit plan (utils/rate-limiter).                               *)
(***************************************************************************)
\* calculateRateLimitedBatches: the plan for totalRecords under the daily cap.
\* The batch size of a rate-limited plan and whether a one-day import is
\* rate-limited depend on delays the model does not carry: both are inputs.
calculateRateLimitedBatches(totalRecords, cfg, tight, planBatch) ==
    LET recordsPerDay == cfg.dailyCap
        overADay == totalRecords > recordsPerDay
    IN  [needsRateLimiting |-> overADay \/ tight,
         batchSize |-> planBatch,
         recordsPerDay |-> recordsPerDay,
         estimatedDays |-> IF overADay THEN CeilDiv(totalRecords, recordsPerDay) ELSE 1]

\* calculateDailySchedule: contiguous day ranges of at most recordsPerDay
calculateDailySchedule(totalRecords, recordsPerDay) ==
    LET days == CeilDiv(totalRecords, recordsPerDay)
    IN  [d \in 1..days |->
           [day |-> d,
            recordsStart |-> (d - 1) * recordsPerDay,
            recordsEnd |-> Min(d * recordsPerDay, totalRecords),
            recordsCount |-> Min(d * recordsPerDay, totalRecords) - (d - 1) * recordsPerDay,
            pauseAfter |-> d < days]]

NoSchedule == <<>>


(***************************************************************************)
(* The publisher.  The code between two awaits is one step: the operators  *)
(* below run it from a point of the loop to the next await or return, and  *)
(* yield the publisher's position, locals and the calls issued on the way. *)
(***************************************************************************)
Undefined == -1

NoResult == [successCount |-> 0, errorCount |-> 0, cancelled |-> FALSE]

PublishResult(sc, ec, cn) == [successCount |-> sc, errorCount |-> ec, cancelled |-> cn]

\* batchSize = Math.min(batchSize, MAX_APPLY_WRITES_OPS) left out
CapBatchSizeNoCap(bs) == bs

\* batchSize = Math.min(batchSize, MAX_APPLY_WRITES_OPS)
CapBatchSize(bs) == Min(bs, MAX_APPLY_WRITES_OPS)

\* records.slice(start, end)
Slice(recs, start, end) == SubSeq(recs, start + 1, Min(end, Len(recs)))

\* a day slice that starts at the first record of the import
DaySliceFromZero(recs, day) == Slice(recs, 0, day.recordsEnd)

\* a day slice that runs on to the last record of the import
DaySliceToLast(recs, day) == Slice(recs, day.recordsStart, Len(recs))

\* dayRecords = records.slice(day.recordsStart, day.recordsEnd)
DaySlice(recs, day) == Slice(recs, day.recordsStart, day.recordsEnd)

\* batch = records.slice(i, Math.min(i + batchSize, records.length))
Batch(recs, idx, bs) == Slice(recs, idx, Min(idx + bs, Len(recs)))

\* the killswitch poll before a chunk, never seeing the signal
CancelledBeforeChunkNever(signal) == FALSE

\* isImportCancelled() before processing a batch
CancelledBeforeChunk(signal) == signal

\* the killswitch poll before the wait, never seeing the signal
CancelledBeforeWaitNever(signal) == FALSE

\* isImportCancelled() before the inter-batch wait
CancelledBeforeWait(signal) == signal

\* batchSuccessCount = response.data.results?.length || batch.length
BatchSuccessCount(resultsLen, batchLen) ==
    IF resultsLen = Undefined \/ resultsLen = 0 THEN batchLen ELSE resultsLen

\* a shortfall of results that is not counted as failed
BatchFailCountNone(batchSuccessCount, batchLen) == 0

\* if (batchSuccessCount < batch.length) errorCount += batch.length - batchSuccessCount
BatchFailCount(batchSuccessCount, batchLen) ==
    IF batchSuccessCount < batchLen THEN batchLen - batchSuccessCount ELSE 0

\* a failed batch counted as one error
ThrownFailCountOne(batchLen) == 1

\* catch: errorCount += batch.length
ThrownFailCount(batchLen) == batchLen

\* handleDryRun: { successCount: totalRecords, errorCount: 0, cancelled: false }
handleDryRun(recs) == PublishResult(Len(recs), 0, FALSE)

\* handleCancellation: { successCount, errorCount, cancelled: true }
handleCancellation(sc, ec) == PublishResult(sc, ec, TRUE)

At(pcv, d, idx, sc, ec, dsc, dec, infl, iss, res) ==
    [pc |-> pcv, dayIdx |-> d, i |-> idx, successCount |-> sc, errorCount |-> ec,
     daySuccessCount |-> dsc, dayErrorCount |-> dec, inflight |-> infl,
     issued |-> iss, result |-> res]

\* return of publishRecordsWithApplyWrites
Returned(res) == At("done", 0, 0, res.successCount, res.errorCount, 0, 0, {}, <<>>, res)

\* throw new Error('Agent is required for publishing')
Thrown == At("error", 0, 0, 0, 0, 0, 0, {}, <<>>, NoResult)

MultiDay(c) == c.dailySchedule # NoSchedule

\* the records processDayBatchWithApplyWrites is called with (d = 0: all)
DayRecords(c, d) == IF MultiDay(c) THEN DaySlice(c.records, c.dailySchedule[d]) ELSE c.records

\* its globalOffset argument
GlobalOffset(c, d) == IF MultiDay(c) THEN c.dailySchedule[d].recordsStart ELSE 0

\* a publisher that pauses after every day, the last one too
PauseAfterAlways(day) == TRUE

\* if (day.pauseAfter)
PauseAfter(day) == day.pauseAfter

RECURSIVE ForLoop(_, _, _, _, _, _, _)
RECURSIVE DayReturned(_, _, _, _, _)
RECURSIVE ForDays(_, _, _, _)

\* applyWrites issued and the next chunk started without awaiting the response
SubmitNoAwait(c, d, idx, sc, ec, dsc, dec, call) ==
    LET rest == ForLoop(c, d, idx + c.batchSize, sc, ec, dsc, dec)
    IN  [rest EXCEPT !.inflight = @ \cup {call}, !.issued = <<call>> \o @]

\* await agent.com.atproto.repo.applyWrites({ repo, writes })
Submit(c, d, idx, sc, ec, dsc, dec, call) ==
    At("inflight", d, idx, sc, ec, dsc, dec, {call}, <<call>>, NoResult)

\* processDayBatchWithApplyWrites from the loop condition with i = idx
ForLoop(c, d, idx, sc, ec, dsc, dec) ==
    LET recs == DayRecords(c, d)
    IN  IF idx < Len(recs)
        THEN IF CancelledBeforeChunk(c.cancel)
             THEN DayReturned(c, d, sc, ec, handleCancellation(dsc, dec))
             ELSE Submit(c, d, idx, sc, ec, dsc, dec,
                         [start |-> GlobalOffset(c, d) + idx,
                          batch |-> Batch(recs, idx, c.batchSize)])
        ELSE DayReturned(c, d, sc, ec, PublishResult(dsc, dec, FALSE))

\* publishRecordsWithApplyWrites after a processDayBatchWithApplyWrites call
DayReturned(c, d, sc, ec, res) ==
    IF MultiDay(c)
    THEN LET sc2 == sc + res.successCount
             ec2 == ec + res.errorCount
         IN  IF res.cancelled THEN Returned(PublishResult(sc2, ec2, TRUE))
             ELSE IF PauseAfter(c.dailySchedule[d])
                  THEN At("pause", d, 0, sc2, ec2, 0, 0, {}, <<>>, NoResult)
                  ELSE ForDays(c, d + 1, sc2, ec2)
    ELSE IF res.cancelled
         THEN Returned(PublishResult(res.successCount, res.errorCount, TRUE))
         ELSE Returned(PublishResult(res.successCount, res.errorCount, FALSE))

\* for (const day of dailySchedule), from day d
ForDays(c, d, sc, ec) ==
    IF d > Len(c.dailySchedule) THEN Returned(PublishResult(sc, ec, FALSE))
    ELSE ForLoop(c, d, 0, sc, ec, 0, 0)

\* processDayBatchWithApplyWrites after the try/catch of chunk idx
AfterChunk(c, d, idx, sc, ec, dsc, dec) ==
    IF CancelledBeforeWait(c.cancel)
    THEN DayReturned(c, d, sc, ec, handleCancellation(dsc, dec))
    ELSE IF idx + c.batchSize < Len(DayRecords(c, d))
         THEN At("wait", d, idx, sc, ec, dsc, dec, {}, <<>>, NoResult)
         ELSE ForLoop(c, d, idx + c.batchSize, sc, ec, dsc, dec)

\* a publisher that asks for the agent before it looks at dryRun
PublishGuardAgentFirst(ag, dr) ==
    IF ag = "none" THEN "throw" ELSE IF dr THEN "dry" ELSE "run"

\* if (dryRun) return handleDryRun(...); if (!agent) throw ...
PublishGuard(ag, dr) ==
    IF dr THEN "dry" ELSE IF ag = "none" THEN "throw" ELSE "run"

\* a publisher that never builds a daily schedule
PlanScheduleNone(rateLimitParams, totalRecords) == NoSchedule

\* dailySchedule = estimatedDays > 1 ? calculateDailySchedule(...) : null
PlanSchedule(rateLimitParams, totalRecords) ==
    IF rateLimitParams.estimatedDays > 1
    THEN calculateDailySchedule(totalRecords, rateLimitParams.recordsPerDay)
    ELSE NoSchedule

\* publishRecordsWithApplyWrites up to its first await or return:
\* the plan (batchSize, dailySchedule) and the publisher's position
publishRecordsWithApplyWrites(ag, recs, bs, cfg, dr, signal, tight, planBatch) ==
    LET guard == PublishGuard(ag, dr)
        rateLimitParams == calculateRateLimitedBatches(Len(recs), cfg, tight, planBatch)
        bs1 == IF rateLimitParams.needsRateLimiting THEN rateLimitParams.batchSize ELSE bs
        bs2 == CapBatchSize(bs1)
        sched == PlanSchedule(rateLimitParams, Len(recs))
        c == [records |-> recs, batchSize |-> bs2, dailySchedule |-> sched, cancel |-> signal]
    IN  CASE guard = "dry" ->
               [asked |-> bs, batchSize |-> bs, dailySchedule |-> NoSchedule,
                at |-> Returned(handleDryRun(recs))]
          [] guard = "throw" ->
               [asked |-> bs, batchSize |-> bs, dailySchedule |-> NoSchedule, at |-> Thrown]
          [] OTHER ->
               [asked |-> bs1, batchSize |-> bs2, dailySchedule |-> sched,
                at |-> IF sched # NoSchedule THEN ForDays(c, 1, 0, 0)
                       ELSE ForLoop(c, 0, 0, 0, 0, 0, 0)]


(***************************************************************************)
(* State.                                                                  *)
(***************************************************************************)
VARIABLES
    env,              \* process.env: LANG and LC_ALL
    source,           \* the Last.fm export (PlayRecord[])
    config,           \* Config: the daily write cap
    dest,             \* the repository's collection, in listing order
    nextRkey,         \* the record key the server gives the next create
    pc,               \* where the process is
    op,               \* what it runs: "sync", "publish" or "sweep"
    agent,            \* "ok", "nosession" (no session DID) or "none" (null)
    dryRun,
    cancel,           \* the killswitch isImportCancelled() reads
    cursor,           \* listRecords cursor (records listed so far)
    existingRecords,  \* fetchExistingRecords' Map
    allRecords,       \* fetchAllRecords' array
    records,          \* the records handed to the publisher
    batchSizeAsked,   \* batchSize before Math.min(batchSize, MAX_APPLY_WRITES_OPS)
    batchSize,
    dailySchedule,
    dayIdx,           \* the day of dailySchedule being processed (0: single day)
    i,                \* processDayBatchWithApplyWrites' loop index
    successCount,     \* publishRecordsWithApplyWrites' counters
    errorCount,
    daySuccessCount,  \* processDayBatchWithApplyWrites' counters
    dayErrorCount,
    inflight,         \* applyWrites calls awaiting their response
    result,           \* the PublishResult returned
    toDelete,         \* records removeDuplicates has still to delete
    totalDuplicates,
    recordsRemoved,
    calls,            \* history: the applyWrites calls of this run, in order
    deletes,          \* history: the rkeys deleteRecord was called with
    sweptClean,       \* history: the run before this one was a sweep that deleted all it marked
    fetchFailed,      \* history: a listRecords request of this run failed
    keysAtFetch,      \* history: the keys stored when the index was fetched
    pauses,           \* history: calls issued before each 24-hour pause
    response,         \* history: the last applyWrites outcome and the counts before it
    cancelSnap,       \* history: counts when the killswitch was set between chunks
    input,            \* the arguments of a function called on its own
    output            \* what it returned

planVars == <<records, batchSizeAsked, batchSize, dailySchedule>>
loopVars == <<dayIdx, i, successCount, errorCount, daySuccessCount, dayErrorCount,
              inflight, result, calls, pauses>>
pubVars == <<planVars, loopVars, response>>
fetchVars == <<cursor, existingRecords, allRecords, fetchFailed, keysAtFetch>>
sweepVars == <<toDelete, totalDuplicates, recordsRemoved, deletes, sweptClean>>
runVars == <<op, agent, dryRun>>
callVars == <<input, output>>
vars == <<env, source, config, dest, nextRkey, pc, cancel, cancelSnap,
          runVars, fetchVars, pubVars, sweepVars, callVars>>

Terminal == {"idle", "done", "error", "crashed"}

NoSnap ==
    [set |-> FALSE, flying |-> FALSE, at |-> "none", calls |-> 0, accepted |-> 0, failed |-> 0]

NoResponse == [kind |-> "none", results |-> 0, size |-> 0, accepted |-> 0, failed |-> 0]

\* what the run has counted so far, over the days done and the day in progress
TotalAccepted == successCount + daySuccessCount
TotalFailed == errorCount + dayErrorCount

\* the context the loop operators read
Ctx == [records |-> records, batchSize |-> batchSize,
        dailySchedule |-> dailySchedule, cancel |-> cancel]

\* the call history with the calls just issued.  A run whose chunks hold a
\* record each issues at most Len(records) calls; of a run that issues more,
\* the first Len(records) + 1 calls are kept.
Recorded(issued) == IF Len(calls) > Len(records) THEN calls ELSE calls \o issued

\* the publisher moves to position p
GoTo(p) ==
    /\ pc' = p.pc
    /\ dayIdx' = p.dayIdx
    /\ i' = p.i
    /\ successCount' = p.successCount
    /\ errorCount' = p.errorCount
    /\ daySuccessCount' = p.daySuccessCount
    /\ dayErrorCount' = p.dayErrorCount
    /\ inflight' = p.inflight
    /\ result' = p.result
    /\ calls' = Recorded(p.issued)
    /\ pauses' = IF p.pc = "pause" THEN Append(pauses, Len(Recorded(p.issued))) ELSE pauses

\* publishRecordsWithApplyWrites is called with recs
EnterPublish(ag, dr, signal, recs, bs, tight, planBatch) ==
    LET run == publishRecordsWithApplyWrites(ag, recs, bs, config, dr, signal, tight, planBatch)
    IN  /\ records' = recs
        /\ batchSizeAsked' = run.asked
        /\ batchSize' = run.batchSize
        /\ dailySchedule' = run.dailySchedule
        /\ response' = NoResponse
        /\ GoTo(run.at)

\* the locals of a finished run are gone when the process starts again
FreshPublish ==
    /\ records' = <<>>
    /\ batchSizeAsked' = 0
    /\ response' = NoResponse
    /\ dailySchedule' = NoSchedule
    /\ dayIdx' = 0
    /\ i' = 0
    /\ successCount' = 0
    /\ errorCount' = 0
    /\ daySuccessCount' = 0
    /\ dayErrorCount' = 0
    /\ inflight' = {}
    /\ result' = NoResult
    /\ calls' = <<>>
    /\ pauses' = <<>>

FreshSweep ==
    /\ toDelete' = <<>>
    /\ totalDuplicates' = 0
    /\ recordsRemoved' = 0
    /\ deletes' = <<>>

DestRecord(rkey, value) == [uri |-> rkey, value |-> value]

\* the server stores the first n creates of a batch
Land(batch, n) ==
    /\ dest' = dest \o [k \in 1..n |-> DestRecord(nextRkey + k - 1, batch[k])]
    /\ nextRkey' = nextRkey + n

\* the server removes the record with this rkey
RECURSIVE Without(_, _)
Without(list, rkey) ==
    IF list = <<>> THEN <<>>
    ELSE IF Head(list).uri = rkey THEN Tail(list)
    ELSE <<Head(list)>> \o Without(Tail(list), rkey)

NoCall == [fn |-> "none"]

\* nothing has run yet: the repository's collection is empty
Idle ==
    /\ input = NoCall
    /\ output = NoCall
    /\ dest = <<>>
    /\ nextRkey = 1
    /\ pc = "idle"
    /\ op = "none"
    /\ agent = "ok"
    /\ dryRun = FALSE
    /\ cancel = FALSE
    /\ cancelSnap = NoSnap
    /\ cursor = 0
    /\ existingRecords = EmptyMap
    /\ allRecords = <<>>
    /\ fetchFailed = FALSE
    /\ keysAtFetch = {}
    /\ records = <<>>
    /\ batchSizeAsked = 0
    /\ response = NoResponse
    /\ batchSize = 1
    /\ dailySchedule = NoSchedule
    /\ dayIdx = 0
    /\ i = 0
    /\ successCount = 0
    /\ errorCount = 0
    /\ daySuccessCount = 0
    /\ dayErrorCount = 0
    /\ inflight = {}
    /\ result = NoResult
    /\ calls = <<>>
    /\ pauses = <<>>
    /\ toDelete = <<>>
    /\ totalDuplicates = 0
    /\ recordsRemoved = 0
    /\ deletes = <<>>
    /\ sweptClean = FALSE

\* a Last.fm export of up to SrcLen plays, synced into an empty collection, in
\* a shell without LANG or with LANG=en_US.UTF-8 (LANG=C runs as no LANG does)
Init ==
    /\ env \in {e \in Environments : e.LANG # <<"C">>}
    /\ source \in {DistinctExport(n) : n \in 0..SrcLen} \cup {RepeatExport(n) : n \in 2..SrcLen}
    /\ config \in {[dailyCap |-> SmallCap], [dailyCap |-> SmallCap + SrcLen]}
    /\ Idle

\* nothing has run: a function is about to be called on its own
InitFilter ==
    /\ env \in Environments
    /\ source = <<>>
    /\ config = [dailyCap |-> SmallCap]
    /\ Idle


(***************************************************************************)
(* Inputs of the runs.                                                     *)
(***************************************************************************)
SmallBatches == 1..SmallBatch
BigBatches == (MAX_APPLY_WRITES_OPS - 1)..BatchMax

\* the page the server returns for a cursor: at most min(limit, ServerPage) records
Page(list, cur) == SubSeq(list, cur + 1, Min(cur + Min(ListLimit, ServerPage), Len(list)))

\* a fetch that carries on with what it has when a page request fails
RethrowListErrorNot == FALSE

\* catch (error) { ...; throw error; } of fetchExistingRecords and fetchAllRecords
RethrowListError == TRUE

\* const did = agent.session?.did; if (!did) throw ...
HasSessionDid(ag) == ag = "ok"

(***************************************************************************)
(* Sync: fetchExistingRecords, filterNewRecords, publish.                  *)
(***************************************************************************)
StartSync(ag, dr, bs) ==
    /\ pc \in Terminal
    /\ op' = "sync"
    /\ agent' = ag
    /\ dryRun' = dr
    /\ cancel' = FALSE
    /\ cancelSnap' = NoSnap
    /\ FreshPublish
    /\ batchSize' = bs
    /\ FreshSweep
    /\ sweptClean' = FALSE
    /\ cursor' = 0
    /\ existingRecords' = EmptyMap
    /\ allRecords' = <<>>
    /\ fetchFailed' = FALSE
    /\ keysAtFetch' = {createRecordKey(dest[k].value) : k \in 1..Len(dest)}
    /\ pc' = IF HasSessionDid(ag) THEN "listing" ELSE "error"
    /\ UNCHANGED <<input, output, env, source, config, dest, nextRkey>>

\* fetchExistingRecords returned: filterNewRecords, then the publisher unless
\* filterNewRecords threw
SyncFetched(index, tight, planBatch) ==
    /\ LET newRecords == filterNewRecords(source, index, env)
       IN  IF newRecords.threw
           THEN pc' = "error" /\ UNCHANGED pubVars
           ELSE EnterPublish(agent, dryRun, cancel, newRecords.value, batchSize,
                             tight, planBatch)
    /\ UNCHANGED <<input, output, env, source, config, dest, nextRkey, cancel, cancelSnap, runVars, sweepVars>>

\* a listRecords response of fetchExistingRecords
ListPageSync(more, tight, planBatch) ==
    /\ pc = "listing"
    /\ op = "sync"
    /\ LET page == Page(dest, cursor)
           next == cursor + Len(page)
           hasCursor == next < Len(dest) \/ (more /\ page # <<>>)
           index == IndexPage(existingRecords, page)
       IN  /\ existingRecords' = index
           /\ cursor' = next
           /\ UNCHANGED <<allRecords, fetchFailed, keysAtFetch>>
           /\ IF hasCursor
              THEN UNCHANGED <<input, output, env, source, config, dest, nextRkey, pc, cancel, cancelSnap,
                               runVars, pubVars, sweepVars>>
              ELSE SyncFetched(index, tight, planBatch)

(***************************************************************************)
(* Sweep: fetchAllRecords, findDuplicates, deleteRecord.                   *)
(***************************************************************************)
\* removeDuplicates has returned from a sweep that was not a dry run, and
\* every deleteRecord call it made succeeded
CleanSweepDone ==
    /\ op = "sweep"
    /\ pc = "done"
    /\ ~dryRun
    /\ recordsRemoved = Len(deletes)

StartSweep(ag, dr) ==
    /\ pc \in Terminal
    /\ op' = "sweep"
    /\ agent' = ag
    /\ dryRun' = dr
    /\ cancel' = FALSE
    /\ cancelSnap' = NoSnap
    /\ FreshPublish
    /\ UNCHANGED batchSize
    /\ sweptClean' = CleanSweepDone
    /\ FreshSweep
    /\ cursor' = 0
    /\ existingRecords' = EmptyMap
    /\ allRecords' = <<>>
    /\ fetchFailed' = FALSE
    /\ keysAtFetch' = {createRecordKey(dest[k].value) : k \in 1..Len(dest)}
    /\ pc' = IF HasSessionDid(ag) THEN "listing" ELSE "error"
    /\ UNCHANGED <<input, output, env, source, config, dest, nextRkey>>

\* if (dryRun) { ...; return { totalDuplicates, recordsRemoved: 0 }; }
SweepDryRun(dr) == dr

\* group.records[0].value.playedTime of each group: the dates of the examples
FirstPlayedTimes(groups) == [k \in 1..Len(groups) |-> groups[k].records[1].value.playedTime]

\* fetchAllRecords returned: removeDuplicates up to its first deleteRecord, its
\* dry-run return, or the throw of formatDate in the examples
SweepFetched(all) ==
    LET duplicateGroups == findDuplicates(all)
    IN  /\ recordsRemoved' = 0
        /\ IF duplicateGroups = <<>>
           THEN /\ pc' = "done"
                /\ totalDuplicates' = 0
                /\ UNCHANGED <<toDelete, deletes>>
           ELSE /\ totalDuplicates' = TotalDuplicates(duplicateGroups)
                /\ IF ExamplesThrow(FirstPlayedTimes(duplicateGroups), env)
                   THEN /\ pc' = "error"
                        /\ UNCHANGED <<toDelete, deletes>>
                   ELSE IF SweepDryRun(dryRun)
                   THEN /\ pc' = "done"
                        /\ UNCHANGED <<toDelete, deletes>>
                   ELSE /\ pc' = "deleting"
                        /\ toDelete' = ToDelete(duplicateGroups)
                        /\ deletes' = <<Head(ToDelete(duplicateGroups)).uri>>
        /\ UNCHANGED <<input, output, env, source, config, dest, nextRkey, cancel, cancelSnap, runVars,
                       pubVars, sweptClean>>

\* a listRecords response of fetchAllRecords
ListPageAll(more) ==
    /\ pc = "listing"
    /\ op = "sweep"
    /\ LET page == Page(dest, cursor)
           next == cursor + Len(page)
           hasCursor == next < Len(dest) \/ (more /\ page # <<>>)
           all == AppendPage(allRecords, page)
       IN  /\ allRecords' = all
           /\ cursor' = next
           /\ UNCHANGED <<existingRecords, fetchFailed, keysAtFetch>>
           /\ IF hasCursor
              THEN UNCHANGED <<input, output, env, source, config, dest, nextRkey, pc, cancel, cancelSnap,
                               runVars, pubVars, sweepVars>>
              ELSE SweepFetched(all)

\* a listRecords request fails
ListRecordsFails ==
    /\ pc = "listing"
    /\ fetchFailed' = TRUE
    /\ UNCHANGED <<cursor, existingRecords, allRecords, keysAtFetch>>
    /\ IF RethrowListError
       THEN /\ pc' = "error"
            /\ UNCHANGED <<input, output, env, source, config, dest, nextRkey, cancel, cancelSnap,
                           runVars, pubVars, sweepVars>>
       ELSE IF op = "sync" THEN SyncFetched(existingRecords, FALSE, 1)
            ELSE SweepFetched(allRecords)

\* recordsRemoved++ after a delete that failed
RemovedAfterThrowCounted(n) == n + 1

\* catch (error) { }: recordsRemoved stays as it is
RemovedAfterThrow(n) == n

\* deleteRecord succeeds
DeleteReturns ==
    /\ pc = "deleting"
    /\ dest' = Without(dest, Head(toDelete).uri)
    /\ recordsRemoved' = recordsRemoved + 1
    /\ pc' = "delwait"
    /\ UNCHANGED <<input, output, env, source, config, nextRkey, cancel, cancelSnap, runVars, fetchVars,
                   pubVars, toDelete, totalDuplicates, deletes, sweptClean>>

\* deleteRecord fails: catch (error) { } and on
DeleteThrows ==
    /\ pc = "deleting"
    /\ pc' = "delwait"
    /\ recordsRemoved' = RemovedAfterThrow(recordsRemoved)
    /\ UNCHANGED <<input, output, env, source, config, dest, nextRkey, cancel, cancelSnap, runVars, fetchVars,
                   pubVars, toDelete, totalDuplicates, deletes, sweptClean>>

\* the 100 ms between deletions is over: the next record, or the return
DeleteWaitElapsed ==
    /\ pc = "delwait"
    /\ toDelete' = Tail(toDelete)
    /\ IF Tail(toDelete) = <<>>
       THEN pc' = "done" /\ UNCHANGED deletes
       ELSE pc' = "deleting" /\ deletes' = Append(deletes, Head(Tail(toDelete)).uri)
    /\ UNCHANGED <<input, output, env, source, config, dest, nextRkey, cancel, cancelSnap, runVars, fetchVars,
                   pubVars, totalDuplicates, recordsRemoved, sweptClean>>

(***************************************************************************)
(* The publisher's awaits.                                                 *)
(***************************************************************************)
\* the records of a full import are handed straight to the publisher
StartPublish(ag, dr, bs, signal, tight, planBatch) ==
    /\ pc = "idle"
    /\ op' = "publish"
    /\ agent' = ag
    /\ dryRun' = dr
    /\ cancel' = signal
    /\ EnterPublish(ag, dr, signal, source, bs, tight, planBatch)
    /\ UNCHANGED <<input, output, env, source, config, dest, nextRkey, cancelSnap, fetchVars, sweepVars>>

\* applyWrites returns; n is results.length, or Undefined without results
ChunkReturns(n) ==
    /\ pc = "inflight"
    /\ agent = "ok"
    /\ \E call \in inflight :
         LET len == Len(call.batch)
             batchSuccessCount == BatchSuccessCount(n, len)
         IN  /\ n \in {Undefined} \cup (0..(len + OverReport))
             /\ Land(call.batch, IF n = Undefined THEN len ELSE Min(n, len))
             /\ GoTo(AfterChunk(Ctx, dayIdx, i, successCount, errorCount,
                                daySuccessCount + batchSuccessCount,
                                dayErrorCount + BatchFailCount(batchSuccessCount, len)))
             /\ response' = [kind |-> "returned", results |-> n, size |-> len,
                             accepted |-> TotalAccepted, failed |-> TotalFailed]
    /\ UNCHANGED <<input, output, env, source, config, cancel, cancelSnap, runVars, fetchVars, sweepVars, planVars>>

\* applyWrites throws; the writes may have been stored all the same
ChunkThrows(landed) ==
    /\ pc = "inflight"
    /\ landed => agent = "ok"
    /\ \E call \in inflight :
         LET len == Len(call.batch)
         IN  /\ Land(call.batch, IF landed THEN len ELSE 0)
             /\ GoTo(AfterChunk(Ctx, dayIdx, i, successCount, errorCount,
                                daySuccessCount,
                                dayErrorCount + ThrownFailCount(len)))
             /\ response' = [kind |-> "thrown", results |-> 0, size |-> len,
                             accepted |-> TotalAccepted, failed |-> TotalFailed]
    /\ UNCHANGED <<input, output, env, source, config, cancel, cancelSnap, runVars, fetchVars, sweepVars, planVars>>

\* the inter-batch delay is over
WaitElapsed ==
    /\ pc = "wait"
    /\ GoTo(ForLoop(Ctx, dayIdx, i + batchSize, successCount, errorCount,
                    daySuccessCount, dayErrorCount))
    /\ UNCHANGED <<input, output, env, source, config, dest, nextRkey, cancel, cancelSnap, runVars, fetchVars,
                   sweepVars, planVars, response>>

\* the 24-hour pause is over
PauseElapsed ==
    /\ pc = "pause"
    /\ GoTo(ForDays(Ctx, dayIdx + 1, successCount, errorCount))
    /\ UNCHANGED <<input, output, env, source, config, dest, nextRkey, cancel, cancelSnap, runVars, fetchVars,
                   sweepVars, planVars, response>>

\* Ctrl+C: the killswitch is set while the process awaits
SetCancel ==
    /\ pc \in {"listing", "inflight", "wait", "pause"}
    /\ op \in {"sync", "publish"}
    /\ ~cancel
    /\ cancel' = TRUE
    /\ cancelSnap' = IF pc \in {"wait", "pause", "inflight"}
                     THEN [set |-> pc \in {"wait", "pause"}, flying |-> pc = "inflight",
                           at |-> pc, calls |-> Len(calls), accepted |-> TotalAccepted,
                           failed |-> TotalFailed]
                     ELSE cancelSnap
    /\ UNCHANGED <<input, output, env, source, config, dest, nextRkey, pc, runVars, fetchVars, pubVars, sweepVars>>

\* the process dies at an await; a call in flight may or may not take effect
Crash(landed) ==
    /\ pc \in {"listing", "inflight", "wait", "pause", "deleting", "delwait"}
    /\ pc' = "crashed"
    /\ CASE pc = "inflight" ->
              /\ landed => agent = "ok"
              /\ \E call \in inflight :
                   Land(call.batch, IF landed THEN Len(call.batch) ELSE 0)
         [] pc = "deleting" ->
              /\ dest' = IF landed THEN Without(dest, Head(toDelete).uri) ELSE dest
              /\ UNCHANGED nextRkey
         [] OTHER ->
              /\ ~landed
              /\ UNCHANGED <<dest, nextRkey>>
    /\ UNCHANGED <<input, output, env, source, config, cancel, cancelSnap, runVars, fetchVars, pubVars, sweepVars>>

\* the awaits of a publisher run
PublisherSteps ==
    \/ \E n \in {Undefined} \cup (0..(BatchMax + OverReport)) : ChunkReturns(n)
    \/ \E landed \in BOOLEAN : ChunkThrows(landed)
    \/ WaitElapsed
    \/ PauseElapsed
    \/ SetCancel

\* sync runs, crashed and started again at will
NextSync ==
    \/ \E ag \in {"ok", "nosession"}, dr \in BOOLEAN, bs \in SmallBatches : StartSync(ag, dr, bs)
    \/ \E more \in BOOLEAN, tight \in BOOLEAN, planBatch \in SmallBatches :
         ListPageSync(more, tight, planBatch)
    \/ ListRecordsFails
    \/ PublisherSteps
    \/ \E landed \in BOOLEAN : Crash(landed)

SpecSync == Init /\ [][NextSync]_vars

\* sync runs and sweeps
Next ==
    \/ NextSync
    \/ \E ag \in {"ok", "nosession"}, dr \in BOOLEAN : StartSweep(ag, dr)
    \/ \E more \in BOOLEAN : ListPageAll(more)
    \/ DeleteReturns
    \/ DeleteThrows
    \/ DeleteWaitElapsed

Spec == Init /\ [][Next]_vars

\* sync runs and sweeps, or a full import handed to the publisher, with an
\* agent that is logged in, has no session, or (for the publisher) is null
NextAuth ==
    \/ Next
    \/ \E ag \in {"ok", "nosession", "none"}, dr \in BOOLEAN, bs \in SmallBatches,
          signal \in BOOLEAN, tight \in BOOLEAN, planBatch \in SmallBatches :
         StartPublish(ag, dr, bs, signal, tight, planBatch)

SpecAuth == Init /\ [][NextAuth]_vars

\* a full import of BigLen - 1 or BigLen plays, handed to the publisher once
InitPublish ==
    /\ env = [LANG |-> <<>>, LC_ALL |-> <<>>]
    /\ source \in {DistinctExport(n) : n \in (BigLen - 1)..BigLen}
    /\ config \in {[dailyCap |-> BigLen - 2], [dailyCap |-> BigLen]}
    /\ Idle

NextPublish ==
    \/ \E ag \in {"ok", "nosession", "none"}, dr \in BOOLEAN, bs \in BigBatches,
          signal \in BOOLEAN, tight \in BOOLEAN, planBatch \in BigBatches :
         StartPublish(ag, dr, bs, signal, tight, planBatch)
    \/ PublisherSteps

SpecPublish == InitPublish /\ [][NextPublish]_vars

\* an import of up to ChunkLen plays, published once in chunks of one or two
InitChunks ==
    /\ env = [LANG |-> <<>>, LC_ALL |-> <<>>]
    /\ source \in {DistinctExport(n) : n \in 0..ChunkLen}
    /\ config \in {[dailyCap |-> SmallCap], [dailyCap |-> SmallCap + ChunkLen]}
    /\ Idle

NextChunks ==
    \/ \E ag \in {"ok", "nosession"}, bs \in SmallBatches,
          signal \in BOOLEAN, tight \in BOOLEAN, planBatch \in SmallBatches :
         StartPublish(ag, FALSE, bs, signal, tight, planBatch)
    \/ PublisherSteps

SpecChunks == InitChunks /\ [][NextChunks]_vars


(***************************************************************************)
(* Publisher runs in which every applyWrites call comes back and every     *)
(* timed wait elapses; the batch size is any number from 0 on.             *)
(***************************************************************************)
\* the server reports no more results than the call has writes
Faithful(n) == \A call \in inflight : n = Undefined \/ n <= Len(call.batch)

\* applyWrites comes back: it returns or it throws
ChunkComesBack ==
    \/ \E n \in {Undefined} \cup (0..SmallBatch) : Faithful(n) /\ ChunkReturns(n)
    \/ \E landed \in BOOLEAN : ChunkThrows(landed)

NextLive ==
    \/ \E ag \in {"ok", "nosession"}, bs \in 0..SmallBatch,
          signal \in BOOLEAN, tight \in BOOLEAN, planBatch \in SmallBatches :
         StartPublish(ag, FALSE, bs, signal, tight, planBatch)
    \/ ChunkComesBack
    \/ WaitElapsed
    \/ PauseElapsed
    \/ SetCancel

SpecLive ==
    /\ InitChunks
    /\ [][NextLive]_vars
    /\ WF_vars(ChunkComesBack)
    /\ WF_vars(WaitElapsed)
    /\ WF_vars(PauseElapsed)

\* publisher runs with a batch size of one or more, against a server that
\* reports no more results than a call has writes
NextFaithful ==
    \/ \E ag \in {"ok", "nosession"}, bs \in SmallBatches,
          signal \in BOOLEAN, tight \in BOOLEAN, planBatch \in SmallBatches :
         StartPublish(ag, FALSE, bs, signal, tight, planBatch)
    \/ ChunkComesBack
    \/ WaitElapsed
    \/ PauseElapsed
    \/ SetCancel

SpecFaithful == InitChunks /\ [][NextFaithful]_vars

(***************************************************************************)
(* calculateOptimalBatchSize.  SCALING_FACTOR is a ratio num / den, and the *)
(* floor of the scaled logarithm is computed exactly in integers.          *)
(***************************************************************************)
RECURSIVE Pow(_, _)
Pow(b, e) == IF e = 0 THEN 1 ELSE b * Pow(b, e - 1)

\* Math.floor(Math.log2(total / threshold) * num / den) for total > threshold:
\* the largest k with 2^(k * den) <= (total / threshold)^num
RECURSIVE FloorScaledLog2(_, _, _, _)
FloorScaledLog2(total, threshold, factor, k) ==
    IF Pow(2, (k + 1) * factor.den) <= Pow(total, factor.num) \div Pow(threshold, factor.num)
    THEN FloorScaledLog2(total, threshold, factor, k + 1)
    ELSE k

\* calculateOptimalBatchSize(totalRecords, batchDelay, config)
calculateOptimalBatchSize(totalRecords, batchDelay, cfg) ==
    LET delay == IF batchDelay = 0 THEN cfg.DEFAULT_BATCH_DELAY ELSE batchDelay
        calculatedSize ==
            cfg.BASE_BATCH_SIZE
              + FloorScaledLog2(totalRecords, cfg.MIN_RECORDS_FOR_SCALING, cfg.SCALING_FACTOR, 0)
        capped == Min(calculatedSize, cfg.MAX_BATCH_SIZE)
        optimalSize == IF delay < 1500 /\ capped > 15 THEN (capped * 3) \div 4 ELSE capped
    IN  IF totalRecords <= 50 THEN 3
        ELSE IF totalRecords <= cfg.MIN_RECORDS_FOR_SCALING THEN cfg.BASE_BATCH_SIZE
        ELSE IF 3 > optimalSize THEN 3 ELSE optimalSize

\* configurations: scaling from 100 records on, by 1.5 or 2 per doubling
BatchConfigs ==
    {[MIN_RECORDS_FOR_SCALING |-> 100, BASE_BATCH_SIZE |-> 5, MAX_BATCH_SIZE |-> 20,
      SCALING_FACTOR |-> [num |-> 3, den |-> 2], DEFAULT_BATCH_DELAY |-> 2000],
     [MIN_RECORDS_FOR_SCALING |-> 100, BASE_BATCH_SIZE |-> 10, MAX_BATCH_SIZE |-> 50,
      SCALING_FACTOR |-> [num |-> 2, den |-> 1], DEFAULT_BATCH_DELAY |-> 2000],
     [MIN_RECORDS_FOR_SCALING |-> 100, BASE_BATCH_SIZE |-> 10, MAX_BATCH_SIZE |-> 15,
      SCALING_FACTOR |-> [num |-> 2, den |-> 1], DEFAULT_BATCH_DELAY |-> 1000]}

\* batch delays in ms; 0 stands for a delay not given
BatchDelays == {0, 1000, 2000}

Totals == {k * TotalStep : k \in 0..TotalSteps}

CallCalculateOptimalBatchSize(total1, total2, batchDelay, cfg) ==
    /\ input = NoCall
    /\ total1 <= total2
    /\ input' = [fn |-> "calculateOptimalBatchSize", total1 |-> total1, total2 |-> total2,
                 batchDelay |-> batchDelay, config |-> cfg]
    /\ output' = [fn |-> "calculateOptimalBatchSize",
                  size1 |-> calculateOptimalBatchSize(total1, batchDelay, cfg),
                  size2 |-> calculateOptimalBatchSize(total2, batchDelay, cfg)]
    /\ UNCHANGED <<env, source, config, dest, nextRkey, pc, cancel, cancelSnap,
                   runVars, fetchVars, pubVars, sweepVars>>

NextBatchSize ==
    /\ input = NoCall
    /\ \E total1 \in Totals, total2 \in Totals, batchDelay \in BatchDelays,
          cfg \in BatchConfigs :
         CallCalculateOptimalBatchSize(total1, total2, batchDelay, cfg)

SpecBatchSize == InitFilter /\ [][NextBatchSize]_vars


(***************************************************************************)
(* Sweeps of a collection that holds duplicates.                           *)
(***************************************************************************)
\* the plays a collection is made of: two spellings of one play, and two others
StoredPlays ==
    {PlayRecord(<<"Q">>, <<"B">>, 1), PlayRecord(<<" ", "q">>, <<"b", " ">>, 1),
     PlayRecord(<<"Q">>, <<"B">>, 2)}

\* a collection of up to SweepLen records, left there by earlier imports
InitSweep ==
    /\ env \in Environments
    /\ source = <<>>
    /\ config = [dailyCap |-> SmallCap]
    /\ \E n \in 0..SweepLen : \E plays \in [1..n -> StoredPlays] :
         /\ dest = [k \in 1..n |-> DestRecord(k, plays[k])]
         /\ nextRkey = n + 1
    /\ input = NoCall
    /\ output = NoCall
    /\ pc = "idle"
    /\ op = "none"
    /\ agent = "ok"
    /\ dryRun = FALSE
    /\ cancel = FALSE
    /\ cancelSnap = NoSnap
    /\ cursor = 0
    /\ existingRecords = EmptyMap
    /\ allRecords = <<>>
    /\ fetchFailed = FALSE
    /\ keysAtFetch = {}
    /\ records = <<>>
    /\ batchSizeAsked = 0
    /\ response = NoResponse
    /\ batchSize = 1
    /\ dailySchedule = NoSchedule
    /\ dayIdx = 0
    /\ i = 0
    /\ successCount = 0
    /\ errorCount = 0
    /\ daySuccessCount = 0
    /\ dayErrorCount = 0
    /\ inflight = {}
    /\ result = NoResult
    /\ calls = <<>>
    /\ pauses = <<>>
    /\ toDelete = <<>>
    /\ totalDuplicates = 0
    /\ recordsRemoved = 0
    /\ deletes = <<>>
    /\ sweptClean = FALSE

\* one sweep of the collection
NextSweep ==
    \/ \E ag \in {"ok", "nosession"}, dr \in BOOLEAN : pc = "idle" /\ StartSweep(ag, dr)
    \/ \E more \in BOOLEAN : ListPageAll(more)
    \/ ListRecordsFails
    \/ DeleteReturns
    \/ DeleteThrows
    \/ DeleteWaitElapsed

SpecSweep == InitSweep /\ [][NextSweep]_vars

\* sweeps of the collection, one after the other, with no other writer
NextResweep ==
    \/ \E ag \in {"ok", "nosession"}, dr \in BOOLEAN : StartSweep(ag, dr)
    \/ \E more \in BOOLEAN : ListPageAll(more)
    \/ ListRecordsFails
    \/ DeleteReturns
    \/ DeleteThrows
    \/ DeleteWaitElapsed

SpecResweep == InitSweep /\ [][NextResweep]_vars


(***************************************************************************)
(* findDuplicates called on its own.                                       *)
(***************************************************************************)
\* the full lists of up to SweepLen records, in listing order
FullLists ==
    UNION {{[k \in 1..n |-> DestRecord(k, plays[k])] : plays \in [1..n -> StoredPlays]} :
             n \in 0..SweepLen}

CallFindDuplicates(all) ==
    /\ input = NoCall
    /\ input' = [fn |-> "findDuplicates", allRecords |-> all]
    /\ output' = [fn |-> "findDuplicates", duplicates |-> findDuplicates(all)]
    /\ UNCHANGED <<env, source, config, dest, nextRkey, pc, cancel, cancelSnap,
                   runVars, fetchVars, pubVars, sweepVars>>

NextGroups ==
    /\ input = NoCall
    /\ \E all \in FullLists : CallFindDuplicates(all)

SpecGroups == InitFilter /\ [][NextGroups]_vars


(***************************************************************************)
(* filterNewRecords called on its own.                                     *)
(***************************************************************************)
\* { artist "Queen", track "Bohemian Rhapsody", playedTime "2024-01-01T00:00:00Z" }
QueenRecord ==
    [artists |-> <<[artistName |-> <<"Q", "u", "e", "e", "n">>]>>,
     trackName |-> <<"B", "o", "h", "e", "m", "i", "a", "n", " ", "R", "h", "a", "p", "s", "o", "d", "y">>,
     playedTime |-> <<"2", "0", "2", "4", "-", "0", "1", "-", "0", "1", "T", "0", "0", ":", "0", "0", ":", "0", "0", "Z">>]

\* "queen|||bohemian rhapsody|||2024-01-01t00:00:00z"
QueenFoldedKey ==
    <<"q", "u", "e", "e", "n", "|", "|", "|", "b", "o", "h", "e", "m", "i", "a", "n", " ", "r", "h", "a", "p", "s", "o", "d", "y", "|", "|", "|">>
      \o <<"2", "0", "2", "4", "-", "0", "1", "-", "0", "1", "t", "0", "0", ":", "0", "0", ":", "0", "0", "z">>

\* an index that holds the case-folded key of the Queen play
QueenIndex == MapSet(EmptyMap, QueenFoldedKey, DestRecord(1, QueenRecord))

\* "queen|||bohemian rhapsody|||2024-01-01T00:00:00Z"
QueenStoredKey ==
    <<"q", "u", "e", "e", "n", "|", "|", "|", "b", "o", "h", "e", "m", "i", "a", "n", " ", "r", "h", "a", "p", "s", "o", "d", "y", "|", "|", "|">>
      \o <<"2", "0", "2", "4", "-", "0", "1", "-", "0", "1", "T", "0", "0", ":", "0", "0", ":", "0", "0", "Z">>

\* an index that holds the Queen play under artist and track lower-cased
QueenStoredIndex == MapSet(EmptyMap, QueenStoredKey, DestRecord(1, QueenRecord))

\* the records the lists are made of: two spellings of one play, and another play
FilterPool ==
    {PlayRecord(<<"Q">>, <<"B">>, 1), PlayRecord(<<" ", "q">>, <<"b", " ">>, 1),
     PlayRecord(<<"Q">>, <<"B">>, 2), PlayRecord(<<"Z">>, <<"T">>, 1)}

\* the record lists of up to FilterLen records
FilterLists == UNION {[1..n -> FilterPool] : n \in 0..FilterLen}

\* the indexes: any set of the stored plays below, each under its key
FilterIndexes ==
    LET stored == {DestRecord(1, PlayRecord(<<"q">>, <<"b">>, 1)),
                   DestRecord(2, PlayRecord(<<"Q">>, <<"B">>, 2)),
                   DestRecord(3, PlayRecord(<<"T">>, <<"Z">>, 1))}
    IN  {[key \in {createRecordKey(r.value) : r \in some} |->
            CHOOSE r \in some : createRecordKey(r.value) = key] : some \in SUBSET stored}

FilterInputs ==
    {[fn |-> "filterNewRecords", lastfmRecords |-> l, existingRecords |-> x] :
        l \in FilterLists, x \in FilterIndexes}
      \cup {[fn |-> "filterNewRecords", lastfmRecords |-> <<QueenRecord>>,
             existingRecords |-> x] : x \in {QueenIndex, QueenStoredIndex}}

CallFilterNewRecords(in) ==
    /\ input = NoCall
    /\ input' = in
    /\ output' = [fn |-> "filterNewRecords",
                  returned |-> filterNewRecords(in.lastfmRecords, in.existingRecords, env),
                  duplicates |-> filterDuplicates(in.lastfmRecords, in.existingRecords)]
    /\ UNCHANGED <<env, source, config, dest, nextRkey, pc, cancel, cancelSnap,
                   runVars, fetchVars, pubVars, sweepVars>>

NextFilter ==
    /\ input = NoCall
    /\ \E in \in FilterInputs : CallFilterNewRecords(in)

SpecFilter == InitFilter /\ [][NextFilter]_vars


(***************************************************************************)
(* createRecordKey called on two spellings of one play.                    *)
(***************************************************************************)
\* the capital of a letter
UpperChar(c) ==
    CASE c = "q" -> "Q"
      [] c = "b" -> "B"
      [] OTHER -> c

\* the spellings of a name that differ from it by letter case only
CaseVariants(name) ==
    {s \in [1..Len(name) -> {"q", "Q", "b", "B", " "}] :
        \A k \in 1..Len(name) : s[k] \in {name[k], UpperChar(name[k])}}

\* the spellings that differ by letter case and surrounding whitespace only
Spellings(name) ==
    {l \o s \o r : l \in {<<>>, <<" ">>, <<"\t">>}, r \in {<<>>, <<" ">>},
                    s \in CaseVariants(name)}

ArtistNames == {<<"q">>, <<"q", " ", "b">>}
TrackNames == {<<"b">>}

\* a play spelled with this artist and this track
Spelled(artist, track) ==
    [artists |-> <<[artistName |-> artist]>>, trackName |-> track, playedTime |-> <<"1">>]

CallCreateRecordKey(in) ==
    /\ input = NoCall
    /\ input' = in
    /\ output' = [fn |-> "createRecordKey",
                  a |-> createRecordKey(in.a), b |-> createRecordKey(in.b)]
    /\ UNCHANGED <<env, source, config, dest, nextRkey, pc, cancel, cancelSnap,
                   runVars, fetchVars, pubVars, sweepVars>>

NextKeys ==
    /\ input = NoCall
    /\ \E artist \in ArtistNames, track \in TrackNames :
         \E a1 \in Spellings(artist), a2 \in Spellings(artist),
            t1 \in Spellings(track), t2 \in Spellings(track) :
           CallCreateRecordKey([fn |-> "createRecordKey",
                                a |-> Spelled(a1, t1), b |-> Spelled(a2, t2)])

SpecKeys == InitFilter /\ [][NextKeys]_vars


(***************************************************************************)
(* generateTID.  A Date is the day and the millisecond of the day of an    *)
(* instant from 1970-01-01T00:00:00.000Z on.  A JavaScript number is kept  *)
(* as its binary digits, least significant first, so that the double's 53  *)
(* significant bits and the base-32 digits are computed and not assumed.   *)
(***************************************************************************)
\* a natural number as binary digits, least significant first
RECURSIVE Bits(_)
Bits(n) == IF n = 0 THEN <<>> ELSE <<n % 2>> \o Bits(n \div 2)

\* bits * c + carry
RECURSIVE MulAdd(_, _, _)
MulAdd(bits, c, carry) ==
    IF bits = <<>> THEN Bits(carry)
    ELSE LET v == Head(bits) * c + carry
         IN  <<v % 2>> \o MulAdd(Tail(bits), c, v \div 2)

\* the value of a few binary digits
RECURSIVE BitsValue(_)
BitsValue(bits) == IF bits = <<>> THEN 0 ELSE Head(bits) + 2 * BitsValue(Tail(bits))

\* bits + 1
RECURSIVE Increment(_)
Increment(bits) ==
    IF bits = <<>> THEN <<1>>
    ELSE IF Head(bits) = 0 THEN <<1>> \o Tail(bits)
    ELSE <<0>> \o Increment(Tail(bits))

\* the double nearest to an integer: 53 significant bits, ties to even
RoundToDouble(bits) ==
    IF Len(bits) <= 53 THEN bits
    ELSE LET drop == Len(bits) - 53
             low == BitsValue(SubSeq(bits, 1, drop))
             half == BitsValue([k \in 1..drop |-> IF k = drop THEN 1 ELSE 0])
             kept == SubSeq(bits, drop + 1, Len(bits))
             up == low > half \/ (low = half /\ Head(kept) = 1)
         IN  [k \in 1..drop |-> 0] \o (IF up THEN Increment(kept) ELSE kept)

\* Date.prototype.getTime: milliseconds since the epoch
getTime(date) == MulAdd(MulAdd(Bits(date.day), 86400, 0), 1000, date.ms)

\* S32_CHAR = '234567abcdefghijklmnopqrstuvwxyz'
S32_CHAR ==
    <<"2", "3", "4", "5", "6", "7", "a", "b", "c", "d", "e", "f", "g", "h", "i", "j",
      "k", "l", "m", "n", "o", "p", "q", "r", "s", "t", "u", "v", "w", "x", "y", "z">>

\* s32encode: while (i) { c = i % 32; i = Math.floor(i / 32); s = S32_CHAR.charAt(c) + s }
RECURSIVE s32encodeLoop(_, _)
s32encodeLoop(num, s) ==
    IF num = <<>> THEN s
    ELSE LET c == BitsValue(SubSeq(num, 1, Min(5, Len(num))))
         IN  s32encodeLoop(SubSeq(num, 6, Len(num)), <<S32_CHAR[c + 1]>> \o s)

s32encode(num) == s32encodeLoop(num, <<>>)

\* String.prototype.padStart with a one-character pad string
padStart(str, targetLength, padString) ==
    IF Len(str) >= targetLength THEN str
    ELSE [k \in 1..(targetLength - Len(str)) |-> padString] \o str

\* generateTID(date)
generateTID(date) ==
    LET unixMicros == RoundToDouble(MulAdd(getTime(date), 1000, 0))
        clockid == Bits(0)
        timestampStr == padStart(s32encode(unixMicros), 11, "2")
        clockidStr == padStart(s32encode(clockid), 2, "2")
    IN  timestampStr \o clockidStr

\* the instants around which identifiers are generated: the epoch, the first
\* instants of 2^50, 2^53, 2^55 and 2^56 microseconds, a day of 2024, and the
\* last day a Date can hold (where two neighbouring milliseconds share a double)
TidInstants ==
    {[day |-> 0, ms |-> 0], [day |-> 13031, ms |-> 21506841],
     [day |-> 19723, ms |-> 0], [day |-> 104249, ms |-> 85654739],
     [day |-> 416999, ms |-> 83418962], [day |-> 833999, ms |-> 80437926],
     [day |-> 99999999, ms |-> 86399038]}

\* the Dates generateTID is called with
TidDates == {[day |-> t.day, ms |-> t.ms + k] : t \in TidInstants, k \in 0..TidSpan}

CallGenerateTID(d1, d2) ==
    /\ input = NoCall
    /\ input' = [fn |-> "generateTID", a |-> d1, b |-> d2]
    /\ output' = [fn |-> "generateTID", a |-> generateTID(d1), b |-> generateTID(d2)]
    /\ UNCHANGED <<env, source, config, dest, nextRkey, pc, cancel, cancelSnap,
                   runVars, fetchVars, pubVars, sweepVars>>

NextTid ==
    /\ input = NoCall
    /\ \E d1 \in TidDates, d2 \in TidDates : CallGenerateTID(d1, d2)

SpecTid == InitFilter /\ [][NextTid]_vars


(***************************************************************************)
(* The plan of a publish run, computed on its own: the rate-limit          *)
(* parameters, the daily schedule and the records sliced for each day.     *)
(***************************************************************************)
CallPlan(total, cap, tight, planBatch) ==
    /\ input = NoCall
    /\ LET recs == DistinctExport(total)
           cfg == [dailyCap |-> cap]
           run == publishRecordsWithApplyWrites("ok", recs, planBatch, cfg, FALSE, FALSE,
                                                tight, planBatch)
       IN  /\ input' = [fn |-> "plan", records |-> recs, config |-> cfg]
           /\ output' = [fn |-> "plan",
                         rateLimitParams |->
                           calculateRateLimitedBatches(total, cfg, tight, planBatch),
                         dailySchedule |-> run.dailySchedule,
                         dayRecords |-> [d \in 1..Len(run.dailySchedule) |->
                                           DaySlice(recs, run.dailySchedule[d])]]
    /\ UNCHANGED <<env, source, config, dest, nextRkey, pc, cancel, cancelSnap,
                   runVars, fetchVars, pubVars, sweepVars>>

NextPlan ==
    /\ input = NoCall
    /\ \E total \in 0..PlanTotal, cap \in 1..PlanCap, tight \in BOOLEAN,
          planBatch \in SmallBatches :
         CallPlan(total, cap, tight, planBatch)

SpecPlan == InitFilter /\ [][NextPlan]_vars


(***************************************************************************)
(* Properties.                                                             *)
(***************************************************************************)
\* records carried by calls a+1 .. b of a call history
RECURSIVE RecordsIn(_, _, _)
RecordsIn(cs, a, b) == IF a >= b THEN 0 ELSE Len(cs[a + 1].batch) + RecordsIn(cs, a + 1, b)

Occurrences(list, x) == Cardinality({k \in 1..Len(list) : list[k] = x})

DestValues == [k \in 1..Len(dest) |-> dest[k].value]

\* a sync run returned a result with cancelled = false and no failed write
CleanFinish ==
    /\ op = "sync"
    /\ pc = "done"
    /\ ~dryRun
    /\ ~result.cancelled
    /\ result.errorCount = 0

\* the destination holds one record per source record, and nothing else
Converged ==
    /\ Len(dest) = Len(source)
    /\ \A k \in 1..Len(source) :
         Occurrences(DestValues, source[k]) = Occurrences(source, source[k])

\* C1: once a sync run ends with cancelled = false and no failed write, whatever
\* runs were cancelled or crashed before it, the destination holds every source
\* record exactly once.
C1_ConvergenceUnderRerun == CleanFinish => Converged

\* C2: no applyWrites call of a sync run carries a record whose key was stored
\* in the destination when the run fetched its index.
C2_NoResubmissionOfLanded ==
    op = "sync" =>
      \A j \in 1..Len(calls) : \A k \in 1..Len(calls[j].batch) :
        createRecordKey(calls[j].batch[k]) \notin keysAtFetch

\* an earlier run landed part of the export, and this run publishes the rest
C2_Witness ==
    /\ op = "sync"
    /\ calls # <<>>
    /\ keysAtFetch \cap Keys(source) # {}

\* C3: when the killswitch is set between two chunks, no further applyWrites call
\* is issued, and the run returns cancelled = true with the accepted count it
\* had when the signal was set.
C3_CancelBetweenChunks ==
    cancelSnap.set =>
      /\ Len(calls) = cancelSnap.calls
      /\ pc \in {"wait", "pause", "done"}
      /\ pc = "done" => /\ result.cancelled
                        /\ result.successCount = cancelSnap.accepted

\* five chunks of one record, the signal set after the second: cancelled, with
\* what the first two chunks had accepted
C3_Witness ==
    /\ Len(records) = 5
    /\ batchSize = 1
    /\ cancelSnap.set
    /\ cancelSnap.calls = 2
    /\ cancelSnap.accepted = 2
    /\ pc = "done"
    /\ result = PublishResult(2, 0, TRUE)

\* the run went through all its chunks
AllSubmitted == RecordsIn(calls, 0, Len(calls)) = Len(records)

\* C4: an applyWrites call that returns N < chunk size results, for every N from
\* 0 on, adds N to the accepted count and chunk size - N to the failed count,
\* and the loop goes on.
C4_PartialBatchAcceptance ==
    (response.kind = "returned" /\ response.results # Undefined
       /\ response.results < response.size) =>
      /\ TotalAccepted = response.accepted + response.results
      /\ TotalFailed = response.failed + (response.size - response.results)
      /\ pc # "error"
      /\ (pc = "done" /\ ~result.cancelled) => AllSubmitted

\* C5: an applyWrites call that throws adds the chunk size to the failed count
\* and nothing to the accepted count, the chunk is not submitted again, the run
\* goes on to the later chunks, and nothing is thrown to the caller.
C5_WholeChunkFailureAbsorbed ==
    /\ response.kind = "thrown" =>
         /\ TotalFailed = response.failed + response.size
         /\ TotalAccepted = response.accepted
         /\ pc # "error"
    /\ \A a, b \in 1..Len(calls) : a # b => calls[a].start # calls[b].start
    /\ (pc = "done" /\ ~result.cancelled) => AllSubmitted

\* a chunk of two failed, and the next chunk is in flight
C5_Witness ==
    /\ response.kind = "thrown"
    /\ response.size = 2
    /\ pc = "inflight"
    /\ Len(calls) >= 2

\* C6: at most one applyWrites call is in flight, it is the last one issued, and
\* the calls of a run carry consecutive slices of the records in record order.
C6_StrictSequencing ==
    /\ Cardinality(inflight) <= 1
    /\ inflight # {} => /\ pc \in {"inflight", "crashed"}
                        /\ inflight = {calls[Len(calls)]}
    /\ \A j \in 1..Len(calls) :
         /\ calls[j].batch # <<>>
         /\ calls[j].batch = SubSeq(records, calls[j].start + 1,
                                    calls[j].start + Len(calls[j].batch))
    /\ \A j \in 1..(Len(calls) - 1) :
         calls[j + 1].start >= calls[j].start + Len(calls[j].batch)

\* the third chunk of a run is in flight, on the second day or later
C6_Witness ==
    /\ pc = "inflight"
    /\ Len(calls) >= 3
    /\ dayIdx >= 2

\* C7: no applyWrites call carries more than 10 creates, whatever batch size the
\* caller or the rate-limit plan asks for.
C7_ProtocolCap ==
    \A j \in 1..Len(calls) : Len(calls[j].batch) <= MAX_APPLY_WRITES_OPS

\* a batch size above the cap was asked for and a call of exactly 10 went out
C7_Witness ==
    /\ batchSizeAsked > MAX_APPLY_WRITES_OPS
    /\ \E j \in 1..Len(calls) : Len(calls[j].batch) = MAX_APPLY_WRITES_OPS

\* the calls of each stretch between the start, the pauses and now
Stretches ==
    [p \in 0..Len(pauses) |->
       RecordsIn(calls, IF p = 0 THEN 0 ELSE pauses[p],
                        IF p = Len(pauses) THEN Len(calls) ELSE pauses[p + 1])]

\* C8: in a multi-day run, the records submitted before the first 24-hour pause
\* and between two consecutive pauses never exceed the daily write cap.
C8_DailyCapRespected ==
    dailySchedule # NoSchedule =>
      \A p \in 0..Len(pauses) : Stretches[p] <= config.dailyCap

\* a run of three days whose first day submitted exactly the cap
C8_Witness ==
    /\ pc = "done"
    /\ Len(pauses) >= 2
    /\ Stretches[0] = config.dailyCap
    /\ Stretches[1] = config.dailyCap

\* C9: a dry-run publish issues no applyWrites call, leaves the destination as
\* it is, and returns accepted = total, failed = 0, cancelled = false, with or
\* without an agent and whatever the killswitch says.
C9_DryRunNoEffect ==
    (op = "publish" /\ dryRun) =>
      /\ pc = "done"
      /\ calls = <<>>
      /\ inflight = {}
      /\ dest = <<>>
      /\ result = PublishResult(Len(source), 0, FALSE)

\* a dry run without an agent, the killswitch already set
C9_Witness ==
    /\ op = "publish"
    /\ dryRun
    /\ agent = "none"
    /\ cancel
    /\ pc = "done"
    /\ Len(source) > MAX_APPLY_WRITES_OPS

\* C10: when a listRecords request fails, the fetch throws and hands over no
\* index or list: no filter, publish or delete runs in that run; and whatever
\* does publish or delete works on the whole listing.
C10_FetchAllOrNothing ==
    /\ fetchFailed =>
         /\ pc = "error"
         /\ records = <<>>
         /\ calls = <<>>
         /\ toDelete = <<>>
         /\ deletes = <<>>
    /\ (op = "sync" /\ pc \in {"inflight", "wait", "pause", "done"}) =>
         DOMAIN existingRecords = keysAtFetch
    /\ (op = "sweep" /\ pc \in {"deleting", "delwait", "done"}) =>
         Len(allRecords) = Len(dest) + recordsRemoved

\* the second page request failed, with part of the stored keys already indexed
C10_Witness ==
    /\ fetchFailed
    /\ cursor > 0
    /\ DOMAIN existingRecords # {}
    /\ DOMAIN existingRecords # keysAtFetch

\* the records the listRecords pages have returned so far, in listing order
Listed == SubSeq(dest, 1, Min(cursor, Len(dest)))

\* the positions of a list that hold a record with this key
PositionsOf(list, key) == {k \in 1..Len(list) : createRecordKey(list[k].value) = key}

\* the last record of a list with this key
LastWithKey(list, key) ==
    list[CHOOSE k \in PositionsOf(list, key) : \A j \in PositionsOf(list, key) : j <= k]

\* C11: over the same pages, the full list holds every listed record once in
\* listing order, the index holds exactly the keys of that list and for each
\* key the last record listed with it, and both fetches go on until a page
\* comes without a cursor.
C11_FetchModesRelated ==
    /\ (op = "sync" /\ pc # "idle") =>
         /\ DOMAIN existingRecords = {createRecordKey(Listed[k].value) : k \in 1..Len(Listed)}
         /\ \A key \in DOMAIN existingRecords :
              existingRecords[key] = LastWithKey(Listed, key)
         /\ (pc \in {"inflight", "wait", "pause", "done"} /\ calls = <<>>) =>
              Listed = dest
    /\ (op = "sweep" /\ recordsRemoved = 0 /\ pc \in {"listing", "error", "deleting", "done"}) =>
         /\ allRecords = Listed
         /\ pc \in {"deleting", "done"} => allRecords = dest

\* a listing of two pages in which a key comes twice, fetched to the end
C11_Witness ==
    /\ op = "sync"
    /\ pc = "done"
    /\ cursor > ServerPage
    /\ Len(Listed) > Cardinality(DOMAIN existingRecords)
    /\ Cardinality(DOMAIN existingRecords) > 1

\* the records of a list that satisfy / do not satisfy "its key is in the index"
KeyedIn(list, index) ==
    LET Has(r) == createRecordKey(r) \in DOMAIN index IN SelectSeq(list, Has)
KeyedOut(list, index) ==
    LET HasNot(r) == createRecordKey(r) \notin DOMAIN index IN SelectSeq(list, HasNot)

\* C12: filterNewRecords returns, for every input list and every index, the
\* input records whose key is not in the index, in input order; the duplicates
\* are those whose key is in it, and the two lengths add up to the input's.
C12_FilterPartitions ==
    output.fn = "filterNewRecords" =>
      /\ ~output.returned.threw
      /\ Len(output.returned.value) + Len(output.duplicates) = Len(input.lastfmRecords)
      /\ output.returned.value = KeyedOut(input.lastfmRecords, input.existingRecords)
      /\ output.duplicates = KeyedIn(input.lastfmRecords, input.existingRecords)

\* C14: the Queen play filtered against an index that holds the key
\* "queen|||bohemian rhapsody|||2024-01-01t00:00:00z" yields an empty list of
\* new records.
C14_QueenScenario ==
    (output.fn = "filterNewRecords" /\ input.lastfmRecords = <<QueenRecord>>
       /\ input.existingRecords = QueenIndex) =>
      output.returned = Return(<<>>)

\* C13: two records whose artist and track differ only by letter case or by
\* leading and trailing whitespace, with equal playedTime, have equal keys.
C13_KeyNormalization ==
    output.fn = "createRecordKey" => output.a = output.b

\* "\tQ b " by "B " against "q B" by "b": one key
C13_Witness ==
    /\ output.fn = "createRecordKey"
    /\ input.a.artists[1].artistName = <<"\t", "Q", " ", "b", " ">>
    /\ input.a.trackName = <<"B", " ">>
    /\ input.b.artists[1].artistName = <<"q", " ", "B">>
    /\ input.b.trackName = <<"b">>
    /\ output.a = <<"q", " ", "b">> \o Delimiter \o <<"b">> \o Delimiter \o <<"1">>

\* the rkeys of the records of a list that come after another record of their key
LaterOfKey(list) ==
    {list[k].uri : k \in {n \in 1..Len(list) :
        \E j \in 1..(n - 1) : createRecordKey(list[j].value) = createRecordKey(list[n].value)}}

DeletedRkeys == {deletes[k] : k \in 1..Len(deletes)}

\* removeDuplicates has ended, by a return or a throw, after fetchAllRecords
\* handed it the full list
SweepEnded ==
    /\ op = "sweep"
    /\ pc \in {"done", "error"}
    /\ HasSessionDid(agent)
    /\ ~fetchFailed

\* C15: a sweep that is not a dry run calls deleteRecord for the members of a
\* duplicate group after the first one, once each, and for nothing else; the
\* first of each key stays, and the collection holds the same keys after the
\* sweep as before it.
C15_SweepKeepsFirst ==
    op = "sweep" =>
      /\ DeletedRkeys \subseteq LaterOfKey(allRecords)
      /\ Cardinality(DeletedRkeys) = Len(deletes)
      /\ (SweepEnded /\ ~dryRun) => DeletedRkeys = LaterOfKey(allRecords)
      /\ \A k \in 1..Len(allRecords) :
           allRecords[k].uri \notin LaterOfKey(allRecords) =>
             \E d \in 1..Len(dest) : dest[d] = allRecords[k]
      /\ {createRecordKey(dest[k].value) : k \in 1..Len(dest)} = keysAtFetch

\* how often a record is a member of the groups
RECURSIVE TimesGrouped(_, _)
TimesGrouped(groups, rec) ==
    IF groups = <<>> THEN 0
    ELSE Occurrences(Head(groups).records, rec) + TimesGrouped(Tail(groups), rec)

\* how many records of a list have the key of this record
KeyCount(list, rec) ==
    Cardinality({k \in 1..Len(list) :
                   createRecordKey(list[k].value) = createRecordKey(rec.value)})

\* C16: every group of findDuplicates has two members or more, all of one key
\* and in listing order; no two groups have the same key; a record of the list
\* is in exactly one group, once, or has a key that occurs once and is in no
\* group; the groups hold records of the list only.
C16_FindDuplicatesGrouping ==
    output.fn = "findDuplicates" =>
      LET groups == output.duplicates
          list == input.allRecords
      IN  /\ \A g \in 1..Len(groups) :
               /\ Len(groups[g].records) >= 2
               /\ \A m \in 1..Len(groups[g].records) :
                    /\ createRecordKey(groups[g].records[m].value) = groups[g].key
                    /\ Occurrences(list, groups[g].records[m]) = 1
               /\ \A m \in 1..(Len(groups[g].records) - 1) :
                    groups[g].records[m].uri < groups[g].records[m + 1].uri
          /\ \A g, h \in 1..Len(groups) : g # h => groups[g].key # groups[h].key
          /\ \A k \in 1..Len(list) :
               TimesGrouped(groups, list[k]) = (IF KeyCount(list, list[k]) > 1 THEN 1 ELSE 0)

\* two groups of two out of a list of four
C16_Witness ==
    /\ output.fn = "findDuplicates"
    /\ Len(input.allRecords) = 4
    /\ Len(output.duplicates) = 2
    /\ output.duplicates[1].records[2].uri = 4
    /\ output.duplicates[2].records[1].uri = 2

\* C17: a deleteRecord call that fails stops nothing: once the sweep has
\* called deleteRecord nothing is thrown, the sweep goes on to the other
\* marked records, and recordsRemoved is the number of deletes that
\* succeeded, at most totalDuplicates and equal to it at the end exactly when
\* no delete failed.
C17_DeleteFailuresSkipped ==
    (op = "sweep" /\ ~dryRun /\ ~fetchFailed /\ agent = "ok") =>
      /\ deletes # <<>> => pc # "error"
      /\ recordsRemoved <= totalDuplicates
      /\ pc \in {"deleting", "delwait", "done"} =>
           recordsRemoved = Len(allRecords) - Len(dest)
      /\ pc = "done" =>
           /\ Len(deletes) = totalDuplicates
           /\ (recordsRemoved = totalDuplicates) <=>
                (\A k \in 1..Len(deletes) : \A d \in 1..Len(dest) : dest[d].uri # deletes[k])

\* of three marked records the second could not be deleted: two removed
C17_Witness ==
    /\ op = "sweep"
    /\ pc = "done"
    /\ ~dryRun
    /\ totalDuplicates = 3
    /\ recordsRemoved = 2
    /\ deletes = <<2, 3, 4>>
    /\ Len(dest) = 2
    /\ dest[2].uri = 3

\* C18: a dry-run sweep calls no deleteRecord, leaves the collection as it
\* is, and returns recordsRemoved = 0 with totalDuplicates = the sum over the
\* groups of (group size - 1).
C18_SweepDryRunNoEffect ==
    (op = "sweep" /\ dryRun) =>
      /\ deletes = <<>>
      /\ toDelete = <<>>
      /\ recordsRemoved = 0
      /\ pc \in {"listing", "done", "error"}
      /\ SweepEnded =>
           /\ pc = "done"
           /\ dest = allRecords
           /\ totalDuplicates = Len(dest) - Cardinality(keysAtFetch)


\* C19: for one batch delay and one configuration, a larger total never gets
\* a smaller batch size, and every batch size is in [3, MAX_BATCH_SIZE].
C19_BatchSizeMonotonic ==
    output.fn = "calculateOptimalBatchSize" =>
      /\ output.size1 <= output.size2
      /\ 3 <= output.size1 /\ output.size1 <= input.config.MAX_BATCH_SIZE
      /\ 3 <= output.size2 /\ output.size2 <= input.config.MAX_BATCH_SIZE

\* the records of a call history, in the order they were submitted
RECURSIVE Submitted(_)
Submitted(cs) == IF cs = <<>> THEN <<>> ELSE Head(cs).batch \o Submitted(Tail(cs))

RECURSIVE SumOfCounts(_)
SumOfCounts(sched) ==
    IF sched = <<>> THEN 0 ELSE Head(sched).recordsCount + SumOfCounts(Tail(sched))

\* C20: the days of a multi-day plan are contiguous ranges in record order,
\* from index 0 to the total, of at most recordsPerDay records each, whose
\* counts add up to the total; the publisher submits each day's range before
\* that day's pause, and a run that is not cancelled submits every record once.
C20_SchedulePartition ==
    dailySchedule # NoSchedule =>
      /\ Len(dailySchedule) > 1
      /\ dailySchedule[1].recordsStart = 0
      /\ dailySchedule[Len(dailySchedule)].recordsEnd = Len(records)
      /\ \A d \in 1..Len(dailySchedule) :
           /\ dailySchedule[d].recordsStart < dailySchedule[d].recordsEnd
           /\ dailySchedule[d].recordsCount
                = dailySchedule[d].recordsEnd - dailySchedule[d].recordsStart
           /\ dailySchedule[d].recordsCount <= config.dailyCap
           /\ d < Len(dailySchedule) =>
                dailySchedule[d + 1].recordsStart = dailySchedule[d].recordsEnd
      /\ SumOfCounts(dailySchedule) = Len(records)
      /\ \A p \in 1..Len(pauses) :
           Submitted(SubSeq(calls, 1, pauses[p]))
             = SubSeq(records, 1, dailySchedule[p].recordsEnd)
      /\ (pc = "done" /\ ~result.cancelled) => Submitted(calls) = records

\* five records under a cap of two: days of two, two and one, all submitted
C20_Witness ==
    /\ Len(dailySchedule) = 3
    /\ Len(records) = 5
    /\ dailySchedule[3].recordsCount = 1
    /\ pauses = <<1, 2>>
    /\ pc = "done"
    /\ ~result.cancelled
    /\ Len(calls) = 3

\* C21: when the new records are more than the daily cap allows in one day,
\* the plan sets needsRateLimiting and estimates the least number of days that
\* hold them all at recordsPerDay a day, and the publisher builds a schedule
\* of that many days; 25 records under a cap of 10 give three days: records
\* 1-10 and 11-20 with a pause after, records 21-25 without.
C21_DayCount ==
    output.fn = "plan" =>
      LET total == Len(input.records)
          p == output.rateLimitParams
      IN  /\ total > input.config.dailyCap =>
                /\ p.needsRateLimiting
                /\ p.estimatedDays * p.recordsPerDay >= total
                /\ (p.estimatedDays - 1) * p.recordsPerDay < total
                /\ Len(output.dailySchedule) = p.estimatedDays
          /\ (total = 25 /\ input.config.dailyCap = 10) =>
                /\ Len(output.dailySchedule) = 3
                /\ output.dayRecords
                     = <<SubSeq(input.records, 1, 10), SubSeq(input.records, 11, 20),
                         SubSeq(input.records, 21, 25)>>
                /\ [d \in 1..3 |-> output.dailySchedule[d].pauseAfter] = <<TRUE, TRUE, FALSE>>

\* the plan for 25 records under a cap of 10 was computed
C21_Witness ==
    /\ output.fn = "plan"
    /\ Len(input.records) = 25
    /\ input.config.dailyCap = 10
    /\ output.rateLimitParams.estimatedDays = 3
    /\ Len(output.dayRecords[3]) = 5

\* t1 is an earlier instant than t2
Earlier(t1, t2) == t1.day < t2.day \/ (t1.day = t2.day /\ t1.ms < t2.ms)

\* the place of a character in the order of UTF-16 code units
CodeRank(c) == CHOOSE k \in 1..32 : S32_CHAR[k] = c

\* a < b for JavaScript strings
RECURSIVE StringLess(_, _)
StringLess(a, b) ==
    IF b = <<>> THEN FALSE
    ELSE IF a = <<>> THEN TRUE
    ELSE IF Head(a) = Head(b) THEN StringLess(Tail(a), Tail(b))
    ELSE CodeRank(Head(a)) < CodeRank(Head(b))

\* C22: an earlier timestamp gets the lexically smaller identifier, so two
\* different timestamps never get the same identifier; one timestamp always
\* gets the same identifier.
C22_IdentifierOrder ==
    output.fn = "generateTID" =>
      /\ Earlier(input.a, input.b) => StringLess(output.a, output.b)
      /\ input.a # input.b => output.a # output.b
      /\ input.a = input.b => output.a = output.b

\* C23: generateTID returns 13 characters for every timestamp: 11 characters
\* of timestamp, then the clock field "22".
C23_IdentifierWidth ==
    output.fn = "generateTID" =>
      /\ Len(output.a) = 13
      /\ SubSeq(output.a, 12, 13) = <<"2", "2">>

\* C24: without a session DID, the index fetch, the full-list fetch of a
\* sweep and a publish that is not a dry run end in an error before any
\* listRecords, applyWrites or deleteRecord call is issued.
C24_MissingAuthenticationFatal ==
    (op # "none" /\ agent # "ok" /\ ~(op = "publish" /\ dryRun)) =>
      /\ pc = "error"
      /\ cursor = 0
      /\ ~fetchFailed
      /\ calls = <<>>
      /\ inflight = {}
      /\ deletes = <<>>

\* C25: when every applyWrites call comes back and every timed wait elapses,
\* a publish run, whatever its records and its batch size, ends with a
\* PublishResult returned.
C25_PublishEndsWithResult == (op = "publish") ~> (pc = "done")

\* C26: when the killswitch is set while an applyWrites call is in flight, the
\* call still comes back and is counted (a thrown call as failed, a call that
\* returns its whole chunk as accepted, and chunk-size records in all whenever
\* the server reports no more results than the chunk has), the run then
\* returns cancelled = true without entering a wait or a pause, and no
\* further call is issued.
C26_CancelInFlight ==
    cancelSnap.flying =>
      /\ Len(calls) = cancelSnap.calls
      /\ pc \in {"inflight", "done"}
      /\ pc = "done" =>
           /\ result.cancelled
           /\ response.kind \in {"returned", "thrown"}
           /\ response.accepted = cancelSnap.accepted
           /\ response.failed = cancelSnap.failed
           /\ response.kind = "thrown" =>
                result = PublishResult(cancelSnap.accepted,
                                       cancelSnap.failed + response.size, TRUE)
           /\ (response.kind = "returned" /\ response.results \in {Undefined, response.size}) =>
                result = PublishResult(cancelSnap.accepted + response.size,
                                       cancelSnap.failed, TRUE)
           /\ (response.kind = "returned" /\ response.results <= response.size) =>
                result.successCount + result.errorCount
                  = cancelSnap.accepted + cancelSnap.failed + response.size

\* five records over three days in chunks of one: the signal came while the
\* second call, the last of day 1, was in flight; the call returned, and the
\* run ended cancelled with two accepted and without the pause after day 1
C26_Witness ==
    /\ cancelSnap.flying
    /\ Len(records) = 5
    /\ Len(dailySchedule) = 3
    /\ batchSize = 1
    /\ cancelSnap.calls = 2
    /\ pc = "done"
    /\ pauses = <<>>
    /\ result = PublishResult(2, 0, TRUE)

\* C27: in a multi-day run the 24-hour pause is entered once after each day
\* but the last whose loop ended without cancellation: the p-th pause comes
\* when exactly the days 1..p have been submitted, there is no pause after
\* the last day and none after a day that was cancelled, and no call of a
\* later day is issued until the pause after the day before it has elapsed.
C27_PausePlacement ==
    dailySchedule # NoSchedule =>
      /\ Len(pauses) <= Len(dailySchedule) - 1
      /\ \A p \in 1..Len(pauses) :
           Submitted(SubSeq(calls, 1, pauses[p]))
             = SubSeq(records, 1, dailySchedule[p].recordsEnd)
      /\ pc \in {"inflight", "wait"} => Len(pauses) = dayIdx - 1
      /\ pc = "pause" =>
           /\ Len(pauses) = dayIdx
           /\ Len(calls) = pauses[Len(pauses)]
           /\ cancel => cancelSnap.at = "pause"
      /\ (pc = "done" /\ ~result.cancelled) => Len(pauses) = Len(dailySchedule) - 1
      /\ \A j \in 1..Len(calls) : \A d \in 1..(Len(dailySchedule) - 1) :
           calls[j].start >= dailySchedule[d].recordsEnd =>
             /\ d <= Len(pauses)
             /\ j > pauses[d]
             /\ pc = "pause" => d < Len(pauses)

\* five records over three days in chunks of one: the pause after day 1 was
\* taken, day 2 was cancelled after its first call, and the run returned
\* without a second pause
C27_Witness ==
    /\ Len(dailySchedule) = 3
    /\ Len(records) = 5
    /\ batchSize = 1
    /\ pauses = <<2>>
    /\ Len(calls) = 3
    /\ pc = "done"
    /\ result.cancelled

\* C28: against a server that reports no more results than a chunk has
\* writes, accepted + failed is at every point the number of records in the
\* calls that have come back, no record is submitted in two calls, and a
\* result with cancelled = false has accepted + failed = the number of
\* records, in single-day and in multi-day runs.
C28_CountConservation ==
    op = "publish" =>
      /\ TotalAccepted + TotalFailed
           = RecordsIn(calls, 0, Len(calls) - Cardinality(inflight))
      /\ \A k \in 1..Len(records) : Occurrences(Submitted(calls), records[k]) <= 1
      /\ \A j \in 1..Len(calls) : \A k \in 1..Len(calls[j].batch) :
           calls[j].batch[k] = records[calls[j].start + k]
      /\ (pc = "done" /\ ~result.cancelled) =>
           result.successCount + result.errorCount = Len(records)

\* a run of five records over three days in chunks of two came to its end
\* with three records accepted and two failed
C28_Witness ==
    /\ op = "publish"
    /\ pc = "done"
    /\ Len(dailySchedule) = 3
    /\ Len(records) = 5
    /\ batchSize = 2
    /\ result = PublishResult(3, 2, FALSE)
    /\ response.kind = "returned"
    /\ response.results = 1

\* no two records of a list have the same key
KeysOnce(list) ==
    \A j, k \in 1..Len(list) :
      j # k => createRecordKey(list[j].value) # createRecordKey(list[k].value)

\* C29: after a sweep that was not a dry run and whose deletes all succeeded,
\* every key occurs once in the collection; a sweep that follows it, with no
\* other writer in between, finds no duplicate group, calls no deleteRecord
\* and returns totalDuplicates = 0 and recordsRemoved = 0.
C29_SweepIdempotent ==
    /\ CleanSweepDone =>
         /\ KeysOnce(dest)
         /\ {createRecordKey(dest[k].value) : k \in 1..Len(dest)} = keysAtFetch
    /\ (sweptClean /\ op = "sweep") =>
         /\ deletes = <<>>
         /\ toDelete = <<>>
         /\ pc \in {"listing", "done", "error"}
         /\ pc = "done" =>
              /\ findDuplicates(allRecords) = <<>>
              /\ totalDuplicates = 0
              /\ recordsRemoved = 0

\* a collection of four records came down to two in a first sweep, and the
\* sweep after it, not a dry run either, returned with nothing to delete
C29_Witness ==
    /\ sweptClean
    /\ op = "sweep"
    /\ pc = "done"
    /\ ~dryRun
    /\ nextRkey = 5
    /\ Len(dest) = 2
    /\ Len(allRecords) = 2
    /\ totalDuplicates = 0

====
